---- MODULE Spec2Model ----
(***************************************************************************)
(* The media-ingestion pipeline of the video management service:          *)
(* services/processing.service.js (processVideo, startProcessing), the    *)
(* broadcast helpers of config/socket.js and the upload controller that   *)
(* triggers a run.                                                         *)
(*                                                                         *)
(* A run is an async function: between two awaits its code executes       *)
(* without interleaving, so every action below is one "awaited operation  *)
(* completes, then the synchronous code up to the next await".  The three *)
(* document saves are split in two steps (the database applies the write, *)
(* later the continuation runs) because the continuation broadcasts and   *)
(* other writers may reach the database in between.                       *)
(*                                                                         *)
(* `emitted` holds the events the latest step broadcast, so a property    *)
(* about "the moment of emission" is a property of the state in which the *)
(* event sits in `emitted`.                                                *)
(***************************************************************************)
EXTENDS Integers, Sequences, FiniteSets, TLC

\* ------------------------------------------------------------------ bounds
\* Number of processVideo runs the model follows.
MaxRuns == 2
\* Number of failures the environment injects in one behaviour: a rejected
\* database read or write, a failing extractor or analyzer, the hub breaking.
MaxFaults == 2
\* Number of fragments a display name is put together from.
MaxPieces == 2
\* Size in bytes of a stored video file.
FileSize == 2
MaxViews == 2
\* The random draws of the analyzer are the multiples of 1/DrawSteps in [0, 1).
DrawSteps == 10

\* ------------------------------------------------------------ value spaces
VideoIds == {"v1"}
Tenants == {"t1"}
RunIds == 1..MaxRuns

NoVideo == [absent |-> TRUE]
NoDoc == [none |-> TRUE]
NoError == "none"
NoMeta == "none"
ExtractedMeta == "meta"

Terminal == {"COMPLETED", "FLAGGED"}
\* models/Video.js: the enum of processingStatus
StatusEnum == {"PENDING", "PROCESSING", "COMPLETED", "FLAGGED"}
\* models/Video.js: the default of processingStatus, also what upload writes
InitialStatus == "PENDING"

\* ----------------------------------------------------------- error messages
MsgVideoNotFound == "Video not found"
MsgDbRead == "db read failed"
MsgDbWrite == "db write failed"
MsgDocNotFound == "No document found for query"
MsgScanFailed == "analyzer failed"
MsgEmitFailed == "emit failed"
\* extractMetadata rejects with one of these
ExtractorMessages == {"Video file not found", "FFprobe error: probe"}
\* processVideo wraps the extractor's message before rethrowing
WrapExtractionError(m) == "Metadata extraction failed: " \o m

\* simulateAISensitivityScan: the reasons it returns
ReasonKeyword == "Sensitivity keyword detected: \"flag\""
ReasonRandom == "AI analysis detected potential content issues"
ScanResults ==
  { [status |-> "SAFE", reason |-> NoError],
    [status |-> "FLAGGED", reason |-> ReasonKeyword],
    [status |-> "FLAGGED", reason |-> ReasonRandom] }

\* ------------------------------------------------- progress contract (pct)
PctInitializing == 0
PctExtracting == 10
PctMetadataExtracted == 25
\* a scan-start percentage below the one announced just before it
PctScanStart_low == PctMetadataExtracted - 5
PctScanStart == 30
PctScanComplete == 75
PctFinalizing == 90
PctCompleted == 100

VARIABLES
  store,      \* the Video collection: id -> record, or NoVideo
  seen,       \* per id: the status values that have ever been persisted
  run,        \* the processVideo runs: run id -> record
  nextRun,    \* the next unused run id
  io,         \* config/socket.js `io`: "unset", "up", or "broken" (emit throws)
  emitted,    \* the events broadcast by the latest step, in order
  upload,     \* per id: the upload request that created it
  unhandled,  \* runs whose rejection no handler took
  faults      \* the failures injected so far

\* The state of the parts of the server that the pipeline does not touch.
VARIABLES
  scan,       \* one call of simulateAISensitivityScan followed to its save
  sock,       \* socket.io: the user directory and the observer connections
  strm        \* streaming: the stored videos and the requests being served

\* What a step of the pipeline leaves alone.
others == <<scan, sock, strm>>

vars == <<store, seen, run, nextRun, io, emitted, upload, unhandled, faults,
          scan, sock, strm>>

\* The pipeline's own state.
pipeline == <<store, seen, run, nextRun, io, emitted, upload, unhandled, faults>>

\* ------------------------------------------------------- injected failures
\* One more awaited operation fails.
Fault == faults < MaxFaults /\ faults' = faults + 1
\* The awaited operation succeeds.
NoFault == faults' = faults

\* --------------------------------------------------------------- the store
VideoRec(t) ==
  [ status |-> InitialStatus, error |-> NoError, meta |-> NoMeta, tenant |-> t ]

Exists(v) == store[v] # NoVideo
PersistedStatus(v) == IF Exists(v) THEN store[v].status ELSE "absent"
PersistedError(v) == IF Exists(v) THEN store[v].error ELSE NoError
PersistedMeta(v) == IF Exists(v) THEN store[v].meta ELSE NoMeta

\* A mongoose document loaded by findById: the fields and the modified paths.
LoadDoc(v) ==
  [ status |-> store[v].status, error |-> store[v].error,
    meta |-> store[v].meta, dirty |-> {} ]

\* doc.field = val: a path is marked modified only when the value changes.
SetField(doc, f, val) ==
  IF doc[f] = val THEN doc
  ELSE [doc EXCEPT ![f] = val, !.dirty = @ \cup {f}]

\* save writing a tenant of its own onto the record.
ApplyDoc_retenant(rec, doc) ==
  [ rec EXCEPT
      !.status = IF "status" \in doc.dirty THEN doc.status ELSE @,
      !.error = IF "error" \in doc.dirty THEN doc.error ELSE @,
      !.meta = IF "meta" \in doc.dirty THEN doc.meta ELSE @,
      !.tenant = "t1" ]

\* document.save(): $set of the modified paths on the stored record.
ApplyDoc(rec, doc) ==
  [ rec EXCEPT
      !.status = IF "status" \in doc.dirty THEN doc.status ELSE @,
      !.error = IF "error" \in doc.dirty THEN doc.error ELSE @,
      !.meta = IF "meta" \in doc.dirty THEN doc.meta ELSE @ ]

\* ------------------------------------------------------- broadcast (socket.js)
\* emitProgress: the event sent to room tenant_<t>.  `status` and `meta` are
\* what the data argument carries (scanResult / status, metadata).
ProgressEvent(r, t, v, pct, stage, status, meta) ==
  [ kind |-> "progress", run |-> r, room |-> t, vid |-> v, pct |-> pct,
    stage |-> stage, status |-> status, meta |-> meta, msg |-> NoError ]

\* emitCompletion
CompletionEvent(r, t, v, status, meta) ==
  [ kind |-> "complete", run |-> r, room |-> t, vid |-> v, pct |-> -1,
    stage |-> "none", status |-> status, meta |-> meta, msg |-> NoError ]

\* emitError
ErrorEvent(r, t, v, msg) ==
  [ kind |-> "error", run |-> r, room |-> t, vid |-> v, pct |-> -1,
    stage |-> "none", status |-> "none", meta |-> NoMeta, msg |-> msg ]

\* The emit calls of one synchronous block, in order: which of them reach the
\* room, and whether one threw.  With `io` unset every emit returns after a
\* warning; with a broken hub io.to(room).emit throws, which abandons the
\* block at its first emit.
EmitOutcomes(new) ==
  CASE io = "unset" -> [sent |-> <<>>, threw |-> FALSE]
    [] io = "up" -> [sent |-> new, threw |-> FALSE]
    [] OTHER -> [sent |-> <<>>, threw |-> new # <<>>]

\* The progress percentages among the events of a block.
PctsOf(evs) ==
  LET prog == SelectSeq(evs, LAMBDA e : e.kind = "progress") IN
  [i \in 1..Len(prog) |-> prog[i].pct]

\* --------------------------------------------------------------- the runs
IdleRun ==
  [ vid |-> "none", tenant |-> "none", pc |-> "idle", doc |-> NoDoc,
    res |-> "none", err |-> NoError,
    extract |-> "none", scan |-> "none", inflight |-> {},
    pcts |-> <<>> ]

\* processVideo(videoId, tenantId) up to its first await: Video.findById.
NewRun(v, t) == [IdleRun EXCEPT !.vid = v, !.tenant = t, !.pc = "find"]

Ended(r) == run[r].pc \in {"done", "rejected"}
Active(r) == run[r].pc # "idle" /\ ~Ended(r)
RunsOf(v) == { r \in RunIds : run[r].pc # "idle" /\ run[r].vid = v }
ActiveRunsOf(v) == { r \in RunsOf(v) : Active(r) }

\* throw inside the try block: the catch logs and awaits Video.findById.  The
\* try block's `video` is out of scope from here on.
EnterCatch(rec, msg) ==
  [rec EXCEPT !.pc = "hFind", !.err = msg, !.doc = NoDoc, !.res = "none"]

\* The promise of processVideo settles: the locals of the call are gone, what
\* stays is that the run took place, what it broadcast and how it ended.
Settled(rec, how) ==
  [IdleRun EXCEPT !.vid = rec.vid, !.tenant = rec.tenant, !.pc = how,
                  !.pcts = rec.pcts]

\* A step of run r: its record becomes `next` after sending `out.sent`.
Sends(r, next, out) ==
  /\ run' = [run EXCEPT ![r] = [next EXCEPT !.pcts = @ \o PctsOf(out.sent)]]
  /\ emitted' = out.sent

\* startProcessing without its .catch: the rejection is nobody's.
OnRejection_uncaught(r) == unhandled' = unhandled \cup {r}

\* lines 243-245: what becomes of a rejection of processVideo(...): the
\* .catch of startProcessing takes it and logs it.
OnRejection(r) == unhandled' = unhandled

\* A step of run r that broadcasts nothing.
Silent(r, next) ==
  /\ run' = [run EXCEPT ![r] = next]
  /\ emitted' = <<>>

\* A block of the try body: emit `new`, then become `next`; an emit that
\* throws enters the catch instead.
EmitThen(r, rec, new, next) ==
  LET out == EmitOutcomes(new) IN
  Sends(r, IF out.threw THEN EnterCatch(rec, MsgEmitFailed) ELSE next, out)

\* The end of the catch block with emitError called twice in a row.
EmitErrorAndSettle_twice(r, rec) ==
  LET ev == ErrorEvent(r, rec.tenant, rec.vid, rec.err)
      out == EmitOutcomes(<<ev, ev>>) IN
  /\ Sends(r, Settled(rec, IF out.threw THEN "rejected" ELSE "done"), out)
  /\ IF out.threw THEN OnRejection(r) ELSE unhandled' = unhandled

\* The end of the catch block: emitError(tenantId, videoId, error.message),
\* then the promise settles; an emit that throws here rejects it, and the
\* rejection goes to whatever startProcessing attached.
EmitErrorAndSettle(r, rec) ==
  LET out == EmitOutcomes(<< ErrorEvent(r, rec.tenant, rec.vid, rec.err) >>) IN
  /\ Sends(r, Settled(rec, IF out.threw THEN "rejected" ELSE "done"), out)
  /\ IF out.threw THEN OnRejection(r) ELSE unhandled' = unhandled

StartRun(v, t) ==
  /\ nextRun <= MaxRuns
  /\ run' = [run EXCEPT ![nextRun] = NewRun(v, t)]
  /\ nextRun' = nextRun + 1
  /\ emitted' = <<>>

\* startProcessing(videoId, tenantId) called directly: nothing in the module
\* restricts its callers, the id need not exist and may already have a run.
StartProcessing(v, t) ==
  /\ StartRun(v, t)
  /\ UNCHANGED <<store, seen, io, upload, unhandled, faults>>
  /\ UNCHANGED others

\* lines 126-132: findById returns; mark PROCESSING and call save.
FindReturns(r) ==
  LET rec == run[r] IN
  /\ rec.pc = "find"
  /\ \/ /\ Fault
        /\ Silent(r, EnterCatch(rec, MsgDbRead))
     \/ /\ NoFault
        /\ ~Exists(rec.vid)
        /\ Silent(r, EnterCatch(rec, MsgVideoNotFound))
     \/ /\ NoFault
        /\ Exists(rec.vid)
        /\ Silent(r, [rec EXCEPT
                        !.doc = SetField(LoadDoc(rec.vid), "status", "PROCESSING"),
                        !.pc = "saveProc"])
  /\ UNCHANGED <<store, seen, nextRun, io, upload, unhandled>>
  /\ UNCHANGED others

\* video.save() as an upsert: a record that is gone is written anew.
SaveCommits_upsert(r, from, to) ==
  LET rec == run[r]
      v == rec.vid IN
  /\ rec.pc = from
  /\ NoFault
  /\ store' = [store EXCEPT ![v] =
       ApplyDoc(IF Exists(v) THEN @ ELSE VideoRec(rec.tenant), rec.doc)]
  /\ seen' = [seen EXCEPT ![v] = @ \cup {store'[v].status}]
  /\ Silent(r, [rec EXCEPT !.pc = to, !.res = "ok", !.doc.dirty = {}])
  /\ UNCHANGED <<nextRun, io, upload, unhandled>>
  /\ UNCHANGED others

\* video.save() reaches the database: the write is applied or rejected.
SaveCommits(r, from, to) ==
  LET rec == run[r]
      v == rec.vid IN
  /\ rec.pc = from
  /\ \/ /\ Fault
        /\ Silent(r, [rec EXCEPT !.pc = to, !.res = MsgDbWrite])
        /\ UNCHANGED <<store, seen>>
     \/ /\ NoFault
        /\ ~Exists(v)
        /\ Silent(r, [rec EXCEPT !.pc = to, !.res = MsgDocNotFound])
        /\ UNCHANGED <<store, seen>>
     \/ /\ NoFault
        /\ Exists(v)
        /\ store' = [store EXCEPT ![v] = ApplyDoc(@, rec.doc)]
        /\ seen' = [seen EXCEPT ![v] = @ \cup {ApplyDoc(store[v], rec.doc).status}]
        /\ Silent(r, [rec EXCEPT !.pc = to, !.res = "ok", !.doc.dirty = {}])
  /\ UNCHANGED <<nextRun, io, upload, unhandled>>
  /\ UNCHANGED others

SaveProcessingCommits(r) == SaveCommits(r, "saveProc", "saveProcRet")
SaveFinalCommits(r) == SaveCommits(r, "saveFinal", "saveFinalRet")
SaveFlaggedCommits(r) == SaveCommits(r, "hSave", "hSaveRet")


\* lines 132-146: the PROCESSING save returned; emit 0% and 10%, then call
\* extractMetadata.
AfterSaveProcessing(r) ==
  LET rec == run[r]
      t == rec.tenant
      v == rec.vid IN
  /\ rec.pc = "saveProcRet"
  /\ IF rec.res # "ok"
       THEN Silent(r, EnterCatch(rec, rec.res))
       ELSE EmitThen(r, rec,
              << ProgressEvent(r, t, v, PctInitializing, "Initializing", "none", NoMeta),
                 ProgressEvent(r, t, v, PctExtracting, "Extracting Metadata", "none", NoMeta) >>,
              [rec EXCEPT !.pc = "extract", !.res = "none", !.extract = "called",
                          !.inflight = @ \cup {"extract"}])
  /\ UNCHANGED <<store, seen, nextRun, io, upload, unhandled, faults>>
  /\ UNCHANGED others

\* extractMetadata settled, with a catch at lines 148-151 that logs the
\* rejection and does not rethrow: the run goes on to the analyzer.
ExtractReturns_swallowed(r) ==
  LET rec == run[r]
      t == rec.tenant
      v == rec.vid
      back == [rec EXCEPT !.inflight = @ \ {"extract"}] IN
  /\ rec.pc = "extract"
  /\ \E ok \in {"ok", "failed"} :
       LET got == [back EXCEPT !.extract = ok] IN
       /\ IF ok = "ok" THEN NoFault ELSE Fault
       /\ EmitThen(r, got,
            << ProgressEvent(r, t, v, PctMetadataExtracted, "Metadata Extracted",
                             "none", got.doc.meta),
               ProgressEvent(r, t, v, PctScanStart, "AI Sensitivity Scan", "none", NoMeta) >>,
            [got EXCEPT !.pc = "scan", !.scan = "called",
                        !.inflight = @ \cup {"scan"}])
  /\ UNCHANGED <<store, seen, nextRun, io, upload, unhandled>>
  /\ UNCHANGED others

\* lines 144-177: extractMetadata settled.  A rejection is rethrown wrapped;
\* otherwise the metadata is set on the in-memory document, 25% and 30% are
\* emitted and the analyzer is called.
ExtractReturns(r) ==
  LET rec == run[r]
      t == rec.tenant
      v == rec.vid
      back == [rec EXCEPT !.inflight = @ \ {"extract"}] IN
  /\ rec.pc = "extract"
  /\ \/ /\ Fault
        /\ \E m \in ExtractorMessages :
             Silent(r, EnterCatch([back EXCEPT !.extract = "failed"],
                                  WrapExtractionError(m)))
     \/ LET got == [back EXCEPT !.extract = "ok",
                                !.doc = SetField(@, "meta", ExtractedMeta)] IN
        /\ NoFault
        /\ EmitThen(r, got,
          << ProgressEvent(r, t, v, PctMetadataExtracted, "Metadata Extracted",
                           "none", got.doc.meta),
             ProgressEvent(r, t, v, PctScanStart, "AI Sensitivity Scan", "none", NoMeta) >>,
          [got EXCEPT !.pc = "scan", !.scan = "called",
                      !.inflight = @ \cup {"scan"}])
  /\ UNCHANGED <<store, seen, nextRun, io, upload, unhandled>>
  /\ UNCHANGED others

\* lines 189-195: the terminal status the try body decides from the scan.
WithScanVerdict(doc, sr) ==
  IF sr.status = "FLAGGED"
    THEN SetField(SetField(doc, "status", "FLAGGED"), "error", sr.reason)
    ELSE SetField(doc, "status", "COMPLETED")

\* lines 177-197: the analyzer settled; emit 75% and 90%, set the terminal
\* status on the document and call save.
ScanReturns(r) ==
  LET rec == run[r]
      t == rec.tenant
      v == rec.vid
      back == [rec EXCEPT !.inflight = @ \ {"scan"}] IN
  /\ rec.pc = "scan"
  /\ \/ /\ Fault
        /\ Silent(r, EnterCatch([back EXCEPT !.scan = "failed"], MsgScanFailed))
     \/ \E sr \in ScanResults :
          LET got == [back EXCEPT !.scan = "ok"] IN
          /\ NoFault
          /\ EmitThen(r, got,
            << ProgressEvent(r, t, v, PctScanComplete, "AI Scan Complete", sr.status, NoMeta),
               ProgressEvent(r, t, v, PctFinalizing, "Finalizing", "none", NoMeta) >>,
            [got EXCEPT !.doc = WithScanVerdict(@, sr), !.pc = "saveFinal"])
  /\ UNCHANGED <<store, seen, nextRun, io, upload, unhandled>>
  /\ UNCHANGED others

\* lines 197-215: the terminal save returned; emit 100% and the completion
\* event, and the run resolves.
AfterSaveFinal(r) ==
  LET rec == run[r]
      t == rec.tenant
      v == rec.vid IN
  /\ rec.pc = "saveFinalRet"
  /\ IF rec.res # "ok"
       THEN Silent(r, EnterCatch(rec, rec.res))
       ELSE EmitThen(r, rec,
              << ProgressEvent(r, t, v, PctCompleted, "Completed", rec.doc.status, NoMeta),
                 CompletionEvent(r, t, v, rec.doc.status, rec.doc.meta) >>,
              Settled(rec, "done"))
  /\ UNCHANGED <<store, seen, nextRun, io, upload, unhandled, faults>>
  /\ UNCHANGED others

\* lines 216-232: the catch block's findById settled.  A rejection is logged
\* by the inner catch, a missing record is skipped; both go on to emitError.
\* Otherwise FLAGGED and the error message are set and save is called.
HandlerFindReturns(r) ==
  LET rec == run[r]
      v == rec.vid IN
  /\ rec.pc = "hFind"
  /\ \/ /\ Fault
        /\ EmitErrorAndSettle(r, rec)
     \/ /\ NoFault
        /\ ~Exists(v)
        /\ EmitErrorAndSettle(r, rec)
     \/ /\ NoFault
        /\ Exists(v)
        /\ Silent(r, [rec EXCEPT
                        !.doc = SetField(SetField(LoadDoc(v), "status", "FLAGGED"),
                                         "error", rec.err),
                        !.pc = "hSave"])
        /\ unhandled' = unhandled
  /\ UNCHANGED <<store, seen, nextRun, io, upload>>
  /\ UNCHANGED others

\* lines 225-232: the catch block's save settled (a failure is only logged);
\* emitError.
AfterSaveFlagged(r) ==
  LET rec == run[r] IN
  /\ rec.pc = "hSaveRet"
  /\ EmitErrorAndSettle(r, rec)
  /\ UNCHANGED <<store, seen, nextRun, io, upload, faults>>
  /\ UNCHANGED others

\* The broadcast hub stops working: from now on io.to(room).emit throws.
HubBreaks ==
  /\ io = "up"
  /\ Fault
  /\ io' = "broken"
  /\ emitted' = <<>>
  /\ UNCHANGED <<store, seen, run, nextRun, upload, unhandled>>
  /\ UNCHANGED others

\* ------------------------------------------------------ the upload request
NoUpload == [state |-> "none"]

\* uploadVideo, lines 335-348: Video.create stores the record as PENDING and
\* returns the document the controller keeps.
UploadCreates(v, t) ==
  /\ upload[v] = NoUpload
  /\ ~Exists(v)
  /\ RunsOf(v) = {}
  /\ nextRun <= MaxRuns
  /\ store' = [store EXCEPT ![v] = VideoRec(t)]
  /\ seen' = [seen EXCEPT ![v] = @ \cup {VideoRec(t).status}]
  /\ upload' = [upload EXCEPT ![v] =
       [state |-> "created", tenant |-> t, status |-> VideoRec(t).status]]
  /\ emitted' = <<>>
  /\ UNCHANGED <<run, nextRun, io, unhandled, faults>>
  /\ UNCHANGED others

\* The tenants uploads come from when tenants are told apart.
LifeTenants == {"t1", "t2"}

\* uploadVideo calling startProcessing with a tenant other than the one it
\* stored on the record.
UploadResponds_otherTenant(v) ==
  /\ upload[v].state = "created"
  /\ StartRun(v, CHOOSE t \in LifeTenants : t # upload[v].tenant)
  /\ upload' = [upload EXCEPT ![v] =
       [ state |-> "responded", tenant |-> upload[v].tenant,
         status |-> upload[v].status,
         reported |-> upload[v].status,
         run |-> nextRun,
         runPcAtResponse |-> run'[nextRun].pc ]]
  /\ UNCHANGED <<store, seen, io, unhandled, faults>>
  /\ UNCHANGED others

\* uploadVideo, lines 356-374: startProcessing is called and returns, then
\* the 201 response is written from the document the controller holds.
UploadResponds(v) ==
  /\ upload[v].state = "created"
  /\ StartRun(v, upload[v].tenant)
  /\ upload' = [upload EXCEPT ![v] =
       [ state |-> "responded", tenant |-> upload[v].tenant,
         status |-> upload[v].status,
         reported |-> upload[v].status,
         run |-> nextRun,
         runPcAtResponse |-> run'[nextRun].pc ]]
  /\ UNCHANGED <<store, seen, io, unhandled, faults>>
  /\ UNCHANGED others

\* ------------------------------------------------------ the delete request
\* deleteVideo line 596: Video.deleteOne({ _id: id }) reaches the database
\* for a record the handler found.
DeleteVideo(v) ==
  /\ Exists(v)
  /\ store' = [store EXCEPT ![v] = NoVideo]
  /\ emitted' = <<>>
  /\ UNCHANGED <<seen, run, nextRun, io, upload, unhandled, faults>>
  /\ UNCHANGED others

\* ------------------------------------------- the analyzer (display names)
\* A display name is a sequence of characters.  String.toLowerCase on the
\* letters the names are written with.
UpperChars ==
  << "A", "B", "C", "D", "E", "F", "G", "H", "I", "J", "K", "L", "M",
     "N", "O", "P", "Q", "R", "S", "T", "U", "V", "W", "X", "Y", "Z" >>
LowerChars ==
  << "a", "b", "c", "d", "e", "f", "g", "h", "i", "j", "k", "l", "m",
     "n", "o", "p", "q", "r", "s", "t", "u", "v", "w", "x", "y", "z" >>

ToLowerChar(c) ==
  IF \E i \in 1..Len(UpperChars) : UpperChars[i] = c
    THEN LowerChars[CHOOSE i \in 1..Len(UpperChars) : UpperChars[i] = c]
    ELSE c

toLowerCase(w) == [i \in 1..Len(w) |-> ToLowerChar(w[i])]

\* String.includes
includes(hay, needle) ==
  \E i \in 0..(Len(hay) - Len(needle)) :
    SubSeq(hay, i + 1, i + Len(needle)) = needle

\* SENSITIVITY_KEYWORDS, in list order: the term and its characters.
SENSITIVITY_KEYWORDS ==
  << [text |-> "test_flag", chars |-> <<"t","e","s","t","_","f","l","a","g">>],
     [text |-> "flag", chars |-> <<"f","l","a","g">>],
     [text |-> "sensitive", chars |-> <<"s","e","n","s","i","t","i","v","e">>],
     [text |-> "nsfw", chars |-> <<"n","s","f","w">>],
     [text |-> "explicit", chars |-> <<"e","x","p","l","i","c","i","t">>] >>

\* The indices of the keywords the lower-cased filename includes.
KeywordHits(filenameLower) ==
  { k \in 1..Len(SENSITIVITY_KEYWORDS) :
      includes(filenameLower, toLowerCase(SENSITIVITY_KEYWORDS[k].chars)) }

\* Array.find with the highest index instead of the lowest.
matchedKeyword_last(filenameLower) ==
  LET hits == KeywordHits(filenameLower) IN
  SENSITIVITY_KEYWORDS[CHOOSE k \in hits : \A j \in hits : j <= k]

\* SENSITIVITY_KEYWORDS.find(...): the first keyword, in list order, that the
\* filename includes.
matchedKeyword(filenameLower) ==
  LET hits == KeywordHits(filenameLower) IN
  SENSITIVITY_KEYWORDS[CHOOSE k \in hits : \A j \in hits : k <= j]

KeywordReason(kw) == "Sensitivity keyword detected: \"" \o kw.text \o "\""

\* Math.random() < 0.1 with the bound included.
randomFlag_inclusive(draw) == draw * 10 <= DrawSteps

\* Math.random() < 0.1, for the draw `draw / DrawSteps`.
randomFlag(draw) == draw * 10 < DrawSteps

\* simulateAISensitivityScan(filename) once its delay is over, with `draw` the
\* value Math.random() returns if it is called.  `drew` tells whether it was.
simulateAISensitivityScan(filename, draw) ==
  LET filenameLower == toLowerCase(filename) IN
  IF KeywordHits(filenameLower) # {}
    THEN [ status |-> "FLAGGED",
           reason |-> KeywordReason(matchedKeyword(filenameLower)),
           drew |-> FALSE ]
    ELSE IF randomFlag(draw)
      THEN [status |-> "FLAGGED", reason |-> ReasonRandom, drew |-> TRUE]
      ELSE [status |-> "SAFE", reason |-> NoError, drew |-> TRUE]

\* The fragments the display names of the model are made of.
Pieces ==
  { <<"T","e","s","t","_">>, <<"f","l","a","g">>, <<"F","l">>, <<"a","G">>,
    <<"s","e","n","s","i">>, <<"T","I","V","E">>, <<"N","S","F","W">>,
    <<"E","x","p","l","i","c","i","t">>, <<"c","a","t">> }

RECURSIVE Flatten(_)
Flatten(ps) == IF ps = <<>> THEN <<>> ELSE Head(ps) \o Flatten(Tail(ps))

DisplayNames ==
  { Flatten(ps) : ps \in UNION { [1..n -> Pieces] : n \in 1..MaxPieces } }

Draws == 0..(DrawSteps - 1)

ScanIdle == [phase |-> "idle"]

\* processVideo at line 177 for a video with originalFilename `name`, after
\* PROCESSING was saved and the metadata set on the document.
ScanCalled(name, draw) ==
  [ phase |-> "called", name |-> name, draw |-> draw,
    rec |-> [VideoRec("t1") EXCEPT !.status = "PROCESSING"],
    doc |-> [ status |-> "PROCESSING", error |-> NoError, meta |-> ExtractedMeta,
              dirty |-> {"meta"} ] ]

\* lines 177-195: the analyzer returns and the verdict is set on the document.
AnalyzerReturns ==
  /\ scan.phase = "called"
  /\ LET sr == simulateAISensitivityScan(scan.name, scan.draw) IN
     scan' = [ phase |-> "returned", name |-> scan.name, draw |-> scan.draw,
               rec |-> scan.rec, result |-> sr,
               doc |-> WithScanVerdict(scan.doc, sr) ]
  /\ UNCHANGED <<pipeline, sock, strm>>

\* line 197: the document is saved.
VerdictSaved ==
  /\ scan.phase = "returned"
  /\ scan' = [scan EXCEPT !.phase = "saved", !.rec = ApplyDoc(@, scan.doc),
                          !.doc.dirty = {}]
  /\ UNCHANGED <<pipeline, sock, strm>>

\* ------------------------------------------ observers (config/socket.js)
\* Tenant ids are ObjectId strings: all of one length.  Here two characters.
TenantA == <<"a", "1">>
TenantB == <<"a", "2">>
SocketTenants == {TenantA, TenantB}

Users == {"u1", "u2"}
\* user.tenantId of the stored users
UserTenant == [u \in Users |-> IF u = "u1" THEN TenantA ELSE TenantB]

Conns == {"c1", "c2"}

\* `tenant_${tenantId}`
Room(t) == <<"tenant_">> \o t

\* String.startsWith
startsWith(w, prefix) ==
  /\ Len(prefix) <= Len(w)
  /\ SubSeq(w, 1, Len(prefix)) = prefix

\* The room names a client asks to join or leave.
RoomNames ==
  { Room(t) : t \in SocketTenants }
    \cup { Room(t) \o <<"0">> : t \in SocketTenants }
    \cup { <<"tenant_">>, <<"tenant_", "a">>, <<"lobby">> }

\* The token of a handshake: absent, not a JWT of this server, expired, or
\* valid for a user id (of a stored user or of none).
Tokens ==
  { [kind |-> "none"], [kind |-> "malformed"], [kind |-> "expired"] }
    \cup { [kind |-> "valid", userId |-> u] : u \in Users \cup {"nobody"} }

NoConn == [state |-> "none"]

\* No server socket: the state of this part in the other specifications.
SockIdle == [users |-> <<>>, tenants |-> <<>>, conns |-> <<>>]

\* The middleware without its check of the tenant.
AuthError_noTenantCheck(token) ==
  CASE token.kind = "none" -> "Authentication error: No token provided"
    [] token.kind = "malformed" -> "Authentication error: Invalid token"
    [] token.kind = "expired" -> "Authentication error: Token expired"
    [] OTHER ->
         IF token.userId \notin Users \/ sock.users[token.userId] # "active"
           THEN "Authentication error: Invalid or inactive user"
           ELSE "ok"

\* lines 30-70: the error the authentication middleware passes to next(), or
\* "ok" when it calls next() without one.
AuthError(token) ==
  CASE token.kind = "none" -> "Authentication error: No token provided"
    [] token.kind = "malformed" -> "Authentication error: Invalid token"
    [] token.kind = "expired" -> "Authentication error: Token expired"
    [] OTHER ->
         IF token.userId \notin Users \/ sock.users[token.userId] # "active"
           THEN "Authentication error: Invalid or inactive user"
           ELSE IF sock.tenants[UserTenant[token.userId]] # "active"
             THEN "Authentication error: Tenant is inactive"
             ELSE "ok"

\* lines 30-86: a handshake.  Rejected by the middleware, or the socket gets
\* its user and tenant and the connection handler joins the tenant room.
Connect(c, token) ==
  /\ sock.conns[c] = NoConn
  /\ LET err == AuthError(token) IN
     sock' = [sock EXCEPT !.conns[c] =
       IF err # "ok"
         THEN [ state |-> "rejected", token |-> token, error |-> err,
                tenantId |-> <<>>, rooms |-> {}, inbox |-> {}, reply |-> "none" ]
         ELSE [ state |-> "connected", token |-> token, error |-> "ok",
                tenantId |-> UserTenant[token.userId],
                rooms |-> {Room(UserTenant[token.userId])},
                inbox |-> {}, reply |-> "connected" ]]
  /\ UNCHANGED <<pipeline, scan, strm>>

\* A join_room that accepts every name that starts with tenant_.
JoinAllowed_anyTenant(c, roomName) == startsWith(roomName, <<"tenant_">>)

\* line 96: roomName.startsWith(`tenant_${socket.tenantId}`)
JoinAllowed(c, roomName) == startsWith(roomName, Room(sock.conns[c].tenantId))

\* lines 94-102: socket.on('join_room')
JoinRoom(c, roomName) ==
  /\ sock.conns[c].state = "connected"
  /\ sock' = [sock EXCEPT !.conns[c] =
       IF JoinAllowed(c, roomName)
         THEN [@ EXCEPT !.rooms = @ \cup {roomName}, !.reply = "room_joined"]
         ELSE [@ EXCEPT !.reply = "error"]]
  /\ UNCHANGED <<pipeline, scan, strm>>

\* lines 105-108: socket.on('leave_room')
LeaveRoom(c, roomName) ==
  /\ sock.conns[c].state = "connected"
  /\ sock' = [sock EXCEPT !.conns[c] =
       [@ EXCEPT !.rooms = @ \ {roomName}, !.reply = "room_left"]]
  /\ UNCHANGED <<pipeline, scan, strm>>

\* lines 89-91: the socket disconnects and is in no room any more.
Disconnect(c) ==
  /\ sock.conns[c].state = "connected"
  /\ sock' = [sock EXCEPT !.conns[c] =
       [@ EXCEPT !.state = "closed", !.rooms = {}, !.reply = "none"]]
  /\ UNCHANGED <<pipeline, scan, strm>>

\* emitProgress / emitCompletion / emitError for an artifact of tenant t:
\* io.to(`tenant_${t}`).emit reaches the sockets that are in that room.
EmitToTenant(kind, t) ==
  /\ sock' = [sock EXCEPT !.conns =
       [c \in Conns |->
          IF sock.conns[c] # NoConn /\ Room(t) \in sock.conns[c].rooms
            THEN [sock.conns[c] EXCEPT !.inbox = @ \cup {<<kind, t>>}]
            ELSE sock.conns[c]]]
  /\ UNCHANGED <<pipeline, scan, strm>>

\* --------------------------------------- streaming (streaming controller)
\* The principals req.user can be: id, role and tenant.
Principals ==
  { [id |-> "viewer1", role |-> "VIEWER", tenantId |-> TenantA],
    [id |-> "viewer2", role |-> "VIEWER", tenantId |-> TenantA],
    [id |-> "editor", role |-> "EDITOR", tenantId |-> TenantA],
    [id |-> "admin", role |-> "ADMIN", tenantId |-> TenantA],
    [id |-> "viewerB", role |-> "VIEWER", tenantId |-> TenantB] }

\* The stored videos, and an id no video has.
StoredIds == {"x1", "x2"}
RequestIds == StoredIds \cup {"x0"}
ReqSlots == {"q1", "q2"}

\* Where the request carries its JWT: the Authorization header or ?token=.
Transports == {"header", "query"}

\* The text of a Range header, one character per element.
DigitChars == <<"0", "1", "2", "3", "4", "5", "6", "7", "8", "9">>
Digit(n) == <<DigitChars[n + 1]>>
BytesUnit == <<"b", "y", "t", "e", "s", "=">>
ItemsUnit == <<"i", "t", "e", "m", "s", "=">>
Dash == <<"-">>

\* req.headers.range is undefined (or empty): !range holds.
NoRange == <<>>

\* bytes=<start>-<end>
RangeText(start, end) == BytesUnit \o Digit(start) \o Dash \o Digit(end)

\* The whole file, start > end, and end = fileSize.
StreamRanges ==
  { NoRange, RangeText(0, FileSize - 1), RangeText(1, 0),
    RangeText(0, FileSize) }

\* Range headers of every kind the parser distinguishes: the above, an open
\* end, a single byte, start = fileSize, and the malformed ones (no start,
\* letters for start or end, another unit, no dash).
RangeHeaders ==
  StreamRanges \cup
  { BytesUnit \o Digit(0) \o Dash,
    RangeText(FileSize - 1, FileSize - 1),
    BytesUnit \o Digit(FileSize) \o Dash,
    BytesUnit \o Dash \o Digit(1),
    BytesUnit \o <<"a", "b", "c">> \o Dash,
    BytesUnit \o Digit(0) \o Dash \o <<"a">>,
    ItemsUnit \o Digit(0) \o Dash \o Digit(1),
    BytesUnit \o Digit(1) }

\* The least index at which needle occurs in hay, 0 when it does not.
IndexOf(hay, needle) ==
  LET at == { i \in 1..(Len(hay) - Len(needle) + 1) :
                SubSeq(hay, i, i + Len(needle) - 1) = needle } IN
  IF at = {} THEN 0 ELSE CHOOSE i \in at : \A j \in at : i <= j

\* range.replace(/bytes=/, ''): the first occurrence is removed.
RemoveUnit(range) ==
  LET i == IndexOf(range, BytesUnit) IN
  IF i = 0 THEN range
  ELSE SubSeq(range, 1, i - 1) \o SubSeq(range, i + Len(BytesUnit), Len(range))

\* String.prototype.split('-')
RECURSIVE split(_)
split(s) ==
  LET i == IndexOf(s, Dash) IN
  IF i = 0 THEN <<s>>
  ELSE <<SubSeq(s, 1, i - 1)>> \o split(SubSeq(s, i + 1, Len(s)))

\* What parseInt returns for a text that does not start with a digit.
NaN == -1
IsNaN(n) == n = NaN

DigitValue(c) == (CHOOSE i \in 1..10 : DigitChars[i] = c) - 1
IsDigit(c) == \E i \in 1..10 : DigitChars[i] = c

\* The value of a run of digits, most significant first.
RECURSIVE DigitsValue(_)
DigitsValue(s) ==
  IF s = <<>> THEN 0
  ELSE 10 * DigitsValue(SubSeq(s, 1, Len(s) - 1)) + DigitValue(s[Len(s)])

\* parseInt(s, 10): the leading digits of s, NaN when there are none.
parseInt(s) ==
  LET stop == { i \in 1..Len(s) : ~IsDigit(s[i]) }
      n == IF stop = {} THEN Len(s)
           ELSE (CHOOSE i \in stop : \A j \in stop : i <= j) - 1 IN
  IF n = 0 THEN NaN ELSE DigitsValue(SubSeq(s, 1, n))

\* a > b in place of a >= b.
Geq_strict(a, b) == ~IsNaN(a) /\ ~IsNaN(b) /\ a > b

\* a >= b of JavaScript: false when an operand is NaN.
Geq(a, b) == ~IsNaN(a) /\ ~IsNaN(b) /\ a >= b

\* lines 744-746: start and end of a Range header, with the end defaulting
\* to fileSize - 1 when parts[1] is undefined or empty.
ParseRange(range) ==
  LET parts == split(RemoveUnit(range)) IN
  [ start |-> parseInt(parts[1]),
    end |-> IF Len(parts) >= 2 /\ parts[2] # <<>>
              THEN parseInt(parts[2]) ELSE FileSize - 1 ]

StrmIdle == [videos |-> <<>>, reqs |-> <<>>]
NoRequest == [pc |-> "idle"]
NoBytes == [none |-> TRUE]
NoHeaders == [none |-> TRUE]
NoData == [none |-> TRUE]

\* A JSON response that carries no status: res.status(code).json(...).
Plain(code, message) ==
  [ code |-> code, message |-> message,
    processingStatus |-> "none", processingError |-> "none",
    headers |-> NoHeaders, data |-> NoData, bytes |-> NoBytes ]

\* The 404 of both endpoints when findOne returns null.
NotFoundResponse == Plain(404, "Video not found or access denied")

\* No response yet: the handler goes on.
Pass == Plain(0, "none")

\* The $or of the query with { isPublic: true } only.
ViewerFilter_publicOnly(u, vid) ==
  u.role = "VIEWER" => vid.isPublic

\* lines 681-687: VIEWER gets $or [{ isPublic: true }, { uploadedBy: userId }]
ViewerFilter(u, vid) ==
  u.role = "VIEWER" => (vid.isPublic \/ vid.uploadedBy = u.id)

\* The query without its tenantId.
Matches_anyTenant(u, id, x) ==
  /\ x = id
  /\ ViewerFilter(u, strm.videos[x])

\* lines 675-687: the stored video x matches { _id, tenantId [, $or] }.
Matches(u, id, x) ==
  /\ x = id
  /\ strm.videos[x].tenantId = u.tenantId
  /\ ViewerFilter(u, strm.videos[x])

\* Video.findOne(query): the id of the matching video, or "null".
FindOne(u, id) ==
  IF \E x \in StoredIds : Matches(u, id, x)
    THEN CHOOSE x \in StoredIds : Matches(u, id, x)
    ELSE "null"

\* The status check with FLAGGED let through.
StatusGate_flaggedStreams(vid) ==
  IF vid.processingStatus \in {"COMPLETED", "FLAGGED"}
    THEN Pass
    ELSE [ Plain(403, "Video is still processing") EXCEPT
             !.processingStatus = vid.processingStatus ]

\* lines 698-715: the response for a video that may not be streamed, or
\* Pass for a COMPLETED one.
StatusGate(vid) ==
  IF vid.processingStatus = "FLAGGED"
    THEN [ Plain(403, "This video has been flagged and cannot be streamed")
             EXCEPT !.processingStatus = vid.processingStatus,
                    !.processingError = vid.processingError ]
    ELSE IF vid.processingStatus # "COMPLETED"
      THEN [ Plain(403, "Video is still processing") EXCEPT
               !.processingStatus = vid.processingStatus ]
      ELSE Pass

\* The head of the 200 response without Accept-Ranges.
FullHead_noRanges(x) ==
  [ contentLength |-> FileSize, contentType |-> strm.videos[x].mimeType,
    acceptRanges |-> "none", contentRange |-> <<>> ]

\* lines 732-737: the head of the 200 response.
FullHead(x) ==
  [ contentLength |-> FileSize, contentType |-> strm.videos[x].mimeType,
    acceptRanges |-> "bytes", contentRange |-> <<>> ]

\* The head of the 206 response with the span counted exclusively.
PartialHead_exclusive(x, start, end) ==
  [ contentLength |-> end - start,
    contentType |-> strm.videos[x].mimeType,
    acceptRanges |-> "bytes", contentRange |-> <<start, end, FileSize>> ]

\* lines 761-768: the head of the 206 response.
PartialHead(x, start, end) ==
  [ contentLength |-> (end - start) + 1,
    contentType |-> strm.videos[x].mimeType,
    acceptRanges |-> "bytes", contentRange |-> <<start, end, FileSize>> ]

\* The range check answering 416 while the whole file is piped.
ServeFile_pipesOnError(x, fileExists, range) ==
  IF ~fileExists
    THEN [head |-> Plain(404, "Video file not found"), file |-> NoBytes]
  ELSE IF range = NoRange
    THEN [ head |-> [Plain(200, "none") EXCEPT !.headers = FullHead(x)],
           file |-> [vid |-> x, start |-> 0, end |-> FileSize - 1] ]
  ELSE [ head |-> Plain(416, "Range Not Satisfiable"),
         file |-> [vid |-> x, start |-> 0, end |-> FileSize - 1] ]

\* lines 717-782: the head of the response for the file of video x and the
\* read stream piped into it, whole or by range. fs.createReadStream is
\* called before writeHead and throws for a start or end that is not an
\* integer and for start > end; the catch answers 500.
ServeFile(x, fileExists, range) ==
  LET r == ParseRange(range) IN
  IF ~fileExists
    THEN [head |-> Plain(404, "Video file not found"), file |-> NoBytes]
  ELSE IF range = NoRange
    THEN [ head |-> [Plain(200, "none") EXCEPT !.headers = FullHead(x)],
           file |-> [vid |-> x, start |-> 0, end |-> FileSize - 1] ]
  ELSE IF Geq(r.start, FileSize) \/ Geq(r.end, FileSize)
    THEN [head |-> Plain(416, "Range Not Satisfiable"), file |-> NoBytes]
  ELSE IF IsNaN(r.start) \/ IsNaN(r.end) \/ r.start > r.end
    THEN [head |-> Plain(500, "Error streaming video"), file |-> NoBytes]
  ELSE [ head |-> [ Plain(206, "none") EXCEPT
                      !.headers = PartialHead(x, r.start, r.end) ],
         file |-> [vid |-> x, start |-> r.start, end |-> r.end] ]

\* The router runs authenticate for every path but /stream/, where req.user
\* stays unset and streamVideo itself verifies req.query.token; without a
\* query token it answers 401. The other routes read the Authorization
\* header only. "none" when the request is authenticated.
AuthResponse(endpoint, via) ==
  IF endpoint = "stream"
    THEN IF via = "query" THEN Pass
         ELSE Plain(401, "Authentication required")
    ELSE IF via = "header" THEN Pass
         ELSE Plain(401, "No token provided")

\* A request with the valid token of principal u: the handler up to its
\* await of Video.findOne, or up to its 401.
Request(q, endpoint, via, u, id, range) ==
  /\ strm.reqs[q] = NoRequest
  /\ endpoint # "stream" => range = NoRange
  /\ strm' = [strm EXCEPT !.reqs[q] =
       [ pc |-> IF AuthResponse(endpoint, via) = Pass
                  THEN "findOne" ELSE "responded",
         endpoint |-> endpoint, via |-> via, user |-> u, id |-> id,
         range |-> range, found |-> "null",
         response |-> AuthResponse(endpoint, via), file |-> NoBytes ]]
  /\ UNCHANGED <<pipeline, scan, sock>>

\* streamVideo from line 689 for user u, id and Range header: the response
\* head and the file stream to pipe.
StreamOutcome(u, id, range, fileExists) ==
  LET x == FindOne(u, id) IN
  IF x = "null" THEN [head |-> NotFoundResponse, file |-> NoBytes]
  ELSE IF StatusGate(strm.videos[x]) # Pass
    THEN [head |-> StatusGate(strm.videos[x]), file |-> NoBytes]
    ELSE ServeFile(x, fileExists, range)

\* streamVideo from line 689: findOne returned; the head is written
\* (res.writeHead or res.status().json()) and the read stream piped.
StreamFindOneReturns(q) ==
  LET req == strm.reqs[q] IN
  /\ req.pc = "findOne"
  /\ req.endpoint = "stream"
  /\ \E fileExists \in BOOLEAN :
       LET out == StreamOutcome(req.user, req.id, req.range, fileExists) IN
       strm' = [strm EXCEPT !.reqs[q] =
         [req EXCEPT
            !.pc = IF out.file = NoBytes THEN "responded" ELSE "piping",
            !.found = FindOne(req.user, req.id),
            !.response = out.head,
            !.file = out.file]]
  /\ UNCHANGED <<pipeline, scan, sock>>

\* The pipe counting a view on the video it streams.
PipeDelivers_countsView(q) ==
  LET req == strm.reqs[q] IN
  /\ req.pc = "piping"
  /\ strm' = [strm EXCEPT
       !.reqs[q] = [req EXCEPT !.pc = "responded", !.response.bytes = req.file],
       !.videos[req.found].views = @ + 1]
  /\ UNCHANGED <<pipeline, scan, sock>>

\* file.pipe(res): the bytes of the read stream reach the client after the
\* handler has returned.
PipeDelivers(q) ==
  LET req == strm.reqs[q] IN
  /\ req.pc = "piping"
  /\ strm' = [strm EXCEPT !.reqs[q] =
       [req EXCEPT !.pc = "responded", !.response.bytes = req.file]]
  /\ UNCHANGED <<pipeline, scan, sock>>

\* /api/videos/stream/${video._id}
StreamUrl(x) == <<"/api/videos/stream/", x>>

\* The video of the info with the document's filePath added.
InfoVideo_withPath(x) ==
  [ id |-> x, fileSize |-> 0,
    mimeType |-> strm.videos[x].mimeType,
    processingStatus |-> strm.videos[x].processingStatus,
    metadata |-> strm.videos[x].metadata,
    uploadedBy |-> strm.videos[x].uploadedBy,
    views |-> strm.videos[x].views,
    filePath |-> strm.videos[x].filePath ]

\* lines 828-843: data.video of the info. The document was selected without
\* filePath, so fs.existsSync(undefined) is false and fileSize stays 0.
InfoVideo(x) ==
  [ id |-> x, fileSize |-> 0,
    mimeType |-> strm.videos[x].mimeType,
    processingStatus |-> strm.videos[x].processingStatus,
    metadata |-> strm.videos[x].metadata,
    uploadedBy |-> strm.videos[x].uploadedBy,
    views |-> strm.videos[x].views ]

\* getStreamInfo from line 811: findOne returned; the info carries the
\* status whatever it is.
InfoFindOneReturns(q) ==
  LET req == strm.reqs[q]
      x == FindOne(req.user, req.id) IN
  /\ req.pc = "findOne"
  /\ req.endpoint = "info"
  /\ strm' = [strm EXCEPT !.reqs[q] =
       [req EXCEPT
          !.pc = "responded", !.found = x,
          !.response =
            IF x = "null" THEN NotFoundResponse
            ELSE [ Plain(200, "none") EXCEPT
                     !.processingStatus = strm.videos[x].processingStatus,
                     !.data = [ video |-> InfoVideo(x),
                                streamUrl |-> StreamUrl(x) ] ]]]
  /\ UNCHANGED <<pipeline, scan, sock>>

\* The response has been sent; the slot serves the next request.
RequestEnds(q) ==
  /\ strm.reqs[q].pc = "responded"
  /\ strm' = [strm EXCEPT !.reqs[q] = NoRequest]
  /\ UNCHANGED <<pipeline, scan, sock>>

\* ------------------------------- get by id and status update (controller)
\* Bodies of PATCH /:id/status: a status of the enum or another word, with
\* or without a processingError.
ManualReason == "set by admin"
StatusBodies ==
  { [processingStatus |-> st, processingError |-> e] :
      st \in StatusEnum \cup {"ARCHIVED"}, e \in {"", ManualReason} }

\* A request record of these two handlers.
RecordRequest(pc, endpoint, u, id, body, response) ==
  [ pc |-> pc, endpoint |-> endpoint, via |-> "header", user |-> u,
    id |-> id, range |-> NoRange, found |-> "null", response |-> response,
    file |-> NoBytes, body |-> body, doc |-> NoData ]

\* getVideoById up to its await of Video.findOne (lines 463-481).
GetVideoById(q, u, id) ==
  /\ strm.reqs[q] = NoRequest
  /\ strm' = [strm EXCEPT !.reqs[q] =
       RecordRequest("findOne", "byId", u, id, NoData, Pass)]
  /\ UNCHANGED <<pipeline, scan, sock>>

\* getVideoById lines 481-493: findOne returned; 404, or views += 1 on the
\* loaded document and await video.save().
GetByIdFindOneReturns(q) ==
  LET req == strm.reqs[q]
      x == FindOne(req.user, req.id) IN
  /\ req.pc = "findOne"
  /\ req.endpoint = "byId"
  /\ x # "null" => strm.videos[x].views < MaxViews
  /\ strm' = [strm EXCEPT !.reqs[q] =
       IF x = "null"
         THEN [req EXCEPT !.pc = "responded", !.response = NotFoundResponse]
         ELSE [req EXCEPT !.pc = "save", !.found = x,
                          !.doc = [strm.videos[x] EXCEPT !.views = @ + 1]]]
  /\ UNCHANGED <<pipeline, scan, sock>>

\* getVideoById lines 493-498: the save wrote the modified path views, and
\* the document is returned.
GetByIdSaveCommits(q) ==
  LET req == strm.reqs[q] IN
  /\ req.pc = "save"
  /\ req.endpoint = "byId"
  /\ strm' = [strm EXCEPT
       !.videos[req.found].views = req.doc.views,
       !.reqs[q] = [req EXCEPT
          !.pc = "responded",
          !.response = [Plain(200, "none") EXCEPT
                          !.processingStatus = req.doc.processingStatus,
                          !.data = [video |-> req.doc]]]]
  /\ UNCHANGED <<pipeline, scan, sock>>

\* PATCH /:id/status up to the await of Video.findOne: authorize('ADMIN')
\* (video.routes), then the check of the new status (lines 519-524).
UpdateProcessingStatus(q, u, id, body) ==
  /\ strm.reqs[q] = NoRequest
  /\ strm' = [strm EXCEPT !.reqs[q] =
       IF u.role # "ADMIN"
         THEN RecordRequest("responded", "status", u, id, body,
                Plain(403, "Access denied. Required role: ADMIN"))
       ELSE IF body.processingStatus \notin StatusEnum
         THEN RecordRequest("responded", "status", u, id, body,
                Plain(400, "Invalid processing status"))
       ELSE RecordRequest("findOne", "status", u, id, body, Pass)]
  /\ UNCHANGED <<pipeline, scan, sock>>

\* The video x matches { _id, tenantId } of updateProcessingStatus.
OfTenant(u, id) ==
  IF id \in StoredIds /\ strm.videos[id].tenantId = u.tenantId
    THEN id ELSE "null"

\* updateProcessingStatus lines 526-543: findOne returned; 404, or the new
\* status (and the processingError when one is given) set on the loaded
\* document and await video.save().
StatusFindOneReturns(q) ==
  LET req == strm.reqs[q]
      x == OfTenant(req.user, req.id) IN
  /\ req.pc = "findOne"
  /\ req.endpoint = "status"
  /\ strm' = [strm EXCEPT !.reqs[q] =
       IF x = "null"
         THEN [req EXCEPT !.pc = "responded",
                          !.response = Plain(404, "Video not found")]
         ELSE [req EXCEPT
                 !.pc = "save", !.found = x,
                 !.doc = [strm.videos[x] EXCEPT
                   !.processingStatus = req.body.processingStatus,
                   !.processingError =
                     IF req.body.processingError # ""
                       THEN req.body.processingError ELSE @]]]
  /\ UNCHANGED <<pipeline, scan, sock>>

\* updateProcessingStatus lines 543-549: the save wrote the paths the
\* handler assigned, and the document is returned.
StatusSaveCommits(q) ==
  LET req == strm.reqs[q] IN
  /\ req.pc = "save"
  /\ req.endpoint = "status"
  /\ strm' = [strm EXCEPT
       !.videos[req.found].processingStatus = req.doc.processingStatus,
       !.videos[req.found].processingError =
          IF req.body.processingError # ""
            THEN req.doc.processingError ELSE @,
       !.reqs[q] = [req EXCEPT
          !.pc = "responded",
          !.response = [Plain(200, "Processing status updated") EXCEPT
                          !.processingStatus = req.doc.processingStatus,
                          !.data = [video |-> req.doc]]]]
  /\ UNCHANGED <<pipeline, scan, sock>>

\* ------------------------------------------------------------ specification
\* One step of some run of processVideo.
RunStep ==
  \/ \E r \in RunIds : FindReturns(r)
  \/ \E r \in RunIds : SaveProcessingCommits(r)
  \/ \E r \in RunIds : AfterSaveProcessing(r)
  \/ \E r \in RunIds : ExtractReturns(r)
  \/ \E r \in RunIds : ScanReturns(r)
  \/ \E r \in RunIds : SaveFinalCommits(r)
  \/ \E r \in RunIds : AfterSaveFinal(r)
  \/ \E r \in RunIds : HandlerFindReturns(r)
  \/ \E r \in RunIds : SaveFlaggedCommits(r)
  \/ \E r \in RunIds : AfterSaveFlagged(r)

InitWith(hub) ==
  /\ store = [v \in VideoIds |-> NoVideo]
  /\ seen = [v \in VideoIds |-> {}]
  /\ run = [r \in RunIds |-> IdleRun]
  /\ nextRun = 1
  /\ io \in hub
  /\ emitted = <<>>
  /\ upload = [v \in VideoIds |-> NoUpload]
  /\ unhandled = {}
  /\ faults = 0
  /\ scan = ScanIdle
  /\ sock = SockIdle
  /\ strm = StrmIdle

\* The pipeline with a working broadcast hub: uploads, runs, and
\* startProcessing called by anyone at any time.
Init == InitWith({"up"})

Next ==
  \/ \E v \in VideoIds, t \in Tenants : UploadCreates(v, t)
  \/ \E v \in VideoIds : UploadResponds(v)
  \/ \E v \in VideoIds, t \in Tenants : StartProcessing(v, t)
  \/ RunStep

Spec == Init /\ [][Next]_vars

\* The server as deployed, where uploadVideo is the only caller of
\* startProcessing, with a hub that may be uninitialised or break.
InitHub == InitWith({"unset", "up"})

NextHub ==
  \/ \E v \in VideoIds, t \in Tenants : UploadCreates(v, t)
  \/ \E v \in VideoIds : UploadResponds(v)
  \/ RunStep
  \/ HubBreaks

SpecHub == InitHub /\ [][NextHub]_vars

\* The analyzer and the finalize stage of a run without failures, for every
\* display name and every random draw.
InitScan ==
  /\ store = [v \in VideoIds |-> NoVideo]
  /\ seen = [v \in VideoIds |-> {}]
  /\ run = [r \in RunIds |-> IdleRun]
  /\ nextRun = 1
  /\ io = "up"
  /\ emitted = <<>>
  /\ upload = [v \in VideoIds |-> NoUpload]
  /\ unhandled = {}
  /\ faults = 0
  /\ \E name \in DisplayNames, draw \in Draws : scan = ScanCalled(name, draw)
  /\ sock = SockIdle
  /\ strm = StrmIdle

NextScan == AnalyzerReturns \/ VerdictSaved

SpecScan == InitScan /\ [][NextScan]_vars

\* The observers: handshakes, room requests and emits in any order, for every
\* state of the first user and of the second user's tenant.
InitSocket ==
  /\ store = [v \in VideoIds |-> NoVideo]
  /\ seen = [v \in VideoIds |-> {}]
  /\ run = [r \in RunIds |-> IdleRun]
  /\ nextRun = 1
  /\ io = "up"
  /\ emitted = <<>>
  /\ upload = [v \in VideoIds |-> NoUpload]
  /\ unhandled = {}
  /\ faults = 0
  /\ scan = ScanIdle
  /\ strm = StrmIdle
  /\ \E ua \in {"active", "inactive"}, tb \in {"active", "inactive", "missing"} :
       sock = [ users |-> [u \in Users |-> IF u = "u1" THEN ua ELSE "active"],
                tenants |-> [t \in SocketTenants |->
                               IF t = TenantA THEN "active" ELSE tb],
                conns |-> [c \in Conns |-> NoConn] ]

NextSocket ==
  \/ \E c \in Conns, token \in Tokens : Connect(c, token)
  \/ \E c \in Conns, roomName \in RoomNames : JoinRoom(c, roomName)
  \/ \E c \in Conns, roomName \in RoomNames : LeaveRoom(c, roomName)
  \/ \E c \in Conns : Disconnect(c)
  \/ \E kind \in {"progress", "complete", "error"}, t \in SocketTenants :
       EmitToTenant(kind, t)

SpecSocket == InitSocket /\ [][NextSocket]_vars

\* Every subsystem but the streaming one at rest.
RestIdle ==
  /\ store = [v \in VideoIds |-> NoVideo]
  /\ seen = [v \in VideoIds |-> {}]
  /\ run = [r \in RunIds |-> IdleRun]
  /\ nextRun = 1
  /\ io = "up"
  /\ emitted = <<>>
  /\ upload = [v \in VideoIds |-> NoUpload]
  /\ unhandled = {}
  /\ faults = 0
  /\ scan = ScanIdle
  /\ sock = SockIdle

\* One stored video of each tenant, with the given visibility, status and
\* owner of the first one, and no request in progress.
Library(pub, st, owner) ==
  [ videos |->
      [ x \in StoredIds |->
          [ tenantId |-> IF x = "x1" THEN TenantA ELSE TenantB,
            uploadedBy |-> IF x = "x1" THEN owner ELSE "viewerB",
            isPublic |-> pub,
            processingStatus |-> st,
            processingError |->
              IF st = "FLAGGED" THEN ReasonRandom ELSE NoError,
            metadata |->
              IF st \in {"COMPLETED", "FLAGGED"} THEN "probed" ELSE NoMeta,
            mimeType |-> "video/mp4",
            filePath |-> <<"uploads/", x>>,
            views |-> 0 ] ],
    reqs |-> [q \in ReqSlots |-> NoRequest] ]

\* Streaming and stream-info requests served concurrently, for one video of
\* each tenant with every visibility, status and owner.
InitStream ==
  /\ RestIdle
  /\ \E pub \in BOOLEAN, st \in StatusEnum, owner \in {"viewer1", "editor"} :
       strm = Library(pub, st, owner)

\* The transport each route authenticates.
Supported(endpoint) == IF endpoint = "stream" THEN "query" ELSE "header"

NextStream ==
  \/ \E q \in ReqSlots, endpoint \in {"stream", "info"}, u \in Principals,
        id \in RequestIds, range \in StreamRanges :
       Request(q, endpoint, Supported(endpoint), u, id, range)
  \/ \E q \in ReqSlots : StreamFindOneReturns(q)
  \/ \E q \in ReqSlots : PipeDelivers(q)
  \/ \E q \in ReqSlots : InfoFindOneReturns(q)
  \/ \E q \in ReqSlots : RequestEnds(q)

SpecStream == InitStream /\ [][NextStream]_vars

\* One request at a time, with either transport and every Range header.
NextRequest ==
  \/ \E endpoint \in {"stream", "info"}, via \in Transports,
        u \in Principals, id \in RequestIds, range \in RangeHeaders :
       Request("q1", endpoint, via, u, id, range)
  \/ StreamFindOneReturns("q1")
  \/ PipeDelivers("q1")
  \/ InfoFindOneReturns("q1")
  \/ RequestEnds("q1")

SpecRequest == InitStream /\ [][NextRequest]_vars

\* Get-by-id and status-update requests served concurrently on the stored
\* videos, with no pipeline run in progress.
RecordUsers == { u \in Principals : u.id \in {"admin", "editor"} }

InitRecord ==
  /\ RestIdle
  /\ \E st \in StatusEnum : strm = Library(FALSE, st, "editor")

NextRecord ==
  \/ \E q \in ReqSlots, u \in RecordUsers, id \in RequestIds :
       GetVideoById(q, u, id)
  \/ \E q \in ReqSlots : GetByIdFindOneReturns(q)
  \/ \E q \in ReqSlots : GetByIdSaveCommits(q)
  \/ \E u \in RecordUsers, id \in RequestIds, body \in StatusBodies :
       UpdateProcessingStatus("q1", u, id, body)
  \/ StatusFindOneReturns("q1")
  \/ StatusSaveCommits("q1")
  \/ \E q \in ReqSlots : RequestEnds(q)

SpecRecord == InitRecord /\ [][NextRecord]_vars

\* An uploaded video of either tenant processed by its run, with one injected
\* failure and a deletion at any moment, while requests for a stored video
\* are served one at a time.
LifeUser == CHOOSE u \in Principals : u.id = "admin"
LifeBodies ==
  { [processingStatus |-> "FLAGGED", processingError |-> ManualReason],
    [processingStatus |-> "COMPLETED", processingError |-> ""] }

InitLife ==
  /\ store = [v \in VideoIds |-> NoVideo]
  /\ seen = [v \in VideoIds |-> {}]
  /\ run = [r \in RunIds |-> IdleRun]
  /\ nextRun = 1
  /\ io = "up"
  /\ emitted = <<>>
  /\ upload = [v \in VideoIds |-> NoUpload]
  /\ unhandled = {}
  /\ faults = MaxFaults - 1
  /\ scan = ScanIdle
  /\ sock = SockIdle
  /\ strm = Library(FALSE, "COMPLETED", "editor")

NextLife ==
  \/ \E v \in VideoIds, t \in LifeTenants : UploadCreates(v, t)
  \/ \E v \in VideoIds : UploadResponds(v)
  \/ RunStep
  \/ \E v \in VideoIds : DeleteVideo(v)
  \/ GetVideoById("q1", LifeUser, "x1")
  \/ GetByIdFindOneReturns("q1")
  \/ GetByIdSaveCommits("q1")
  \/ \E body \in LifeBodies : UpdateProcessingStatus("q1", LifeUser, "x1", body)
  \/ StatusFindOneReturns("q1")
  \/ StatusSaveCommits("q1")
  \/ Request("q1", "stream", "query", LifeUser, "x1", NoRange)
  \/ StreamFindOneReturns("q1")
  \/ PipeDelivers("q1")
  \/ RequestEnds("q1")

SpecLife == InitLife /\ [][NextLife]_vars

\* A streaming request served while status updates are made.
NextGate ==
  \/ \E u \in Principals, id \in StoredIds, range \in StreamRanges :
       Request("q2", "stream", "query", u, id, range)
  \/ StreamFindOneReturns("q2")
  \/ PipeDelivers("q2")
  \/ \E u \in RecordUsers, id \in StoredIds, body \in StatusBodies :
       UpdateProcessingStatus("q1", u, id, body)
  \/ StatusFindOneReturns("q1")
  \/ StatusSaveCommits("q1")
  \/ \E q \in ReqSlots : RequestEnds(q)

SpecGate == InitRecord /\ [][NextGate]_vars


\* ================================================================ claims
StatusOrder ==
  { <<"absent", "PENDING">>, <<"PENDING", "PROCESSING">>,
    <<"PROCESSING", "COMPLETED">>, <<"PROCESSING", "FLAGGED">> }

NonDecreasing(q) == \A i \in 1..(Len(q) - 1) : q[i] <= q[i + 1]

\* C1: every change of an artifact's persisted status is one of PENDING ->
\* PROCESSING, PROCESSING -> COMPLETED, PROCESSING -> FLAGGED (after its
\* creation as PENDING): the status never moves backward and never reaches a
\* terminal value without PROCESSING having been persisted.
C1_StatusMovesForward ==
  [][ \A v \in VideoIds :
        PersistedStatus(v)' # PersistedStatus(v)
          => <<PersistedStatus(v), PersistedStatus(v)'>> \in StatusOrder ]_vars

\* C2: once the persisted status of an artifact is COMPLETED or FLAGGED, no
\* step changes its status or its status detail, and no run calls the
\* extractor or the analyzer for it.
C2_TerminalIsFinal ==
  [][ \A v \in VideoIds :
        PersistedStatus(v) \in Terminal
          => /\ PersistedStatus(v)' = PersistedStatus(v)
             /\ PersistedError(v)' = PersistedError(v)
             /\ \A r \in RunIds :
                  (run'[r].vid = v /\ run'[r].pc \in {"extract", "scan"})
                    => run'[r].pc = run[r].pc ]_vars

\* The runs that hold a loaded document of artifact v and will write it.
WritersOf(v) == { r \in RunsOf(v) : Active(r) /\ run[r].doc # NoDoc }

\* Run r read the artifact when it was already persisted as PROCESSING and
\* went on: its assignment of PROCESSING changed nothing on the document.
ReadAsProcessing(r) ==
  /\ run[r].pc = "saveProc"
  /\ "status" \notin run[r].doc.dirty

\* C3: a run that finds the artifact already persisted as PROCESSING goes no
\* further (no save, no stage), and no two active runs hold a document of the
\* same artifact to write.
C3_SingleWriter ==
  /\ \A r \in RunIds : ~ReadAsProcessing(r)
  /\ \A v \in VideoIds : Cardinality(WritersOf(v)) <= 1

\* C4: at the moment an event is emitted, the metadata it carries and the
\* terminal status it carries are what the store holds for the artifact.
C4_AnnouncedIsPersisted ==
  \A i \in 1..Len(emitted) :
    LET e == emitted[i] IN
    /\ e.meta # NoMeta => PersistedMeta(e.vid) = e.meta
    /\ e.status \in Terminal => PersistedStatus(e.vid) = e.status

\* C5: PROCESSING has been persisted when a run emits its first progress
\* event, the terminal status has been persisted when the run emits 100% and
\* the completion event, and the status the completion event carries is the
\* persisted status at that moment.
C5_PersistBeforeAnnounce ==
  \A i \in 1..Len(emitted) :
    LET e == emitted[i] IN
    /\ e.kind = "progress" => "PROCESSING" \in seen[e.vid]
    /\ (e.kind = "progress" /\ e.pct = PctCompleted) => e.status \in seen[e.vid]
    /\ e.kind = "complete"
         => /\ e.status \in Terminal \cap seen[e.vid]
            /\ PersistedStatus(e.vid) = e.status

\* C6: when the catch block of a run on an existing artifact ends (it emits
\* the failure event last), the artifact is persisted as FLAGGED with the
\* caught error's message as status detail.
C6_FailureIsFlagged ==
  \A i \in 1..Len(emitted) :
    LET e == emitted[i] IN
    (e.kind = "error" /\ Exists(e.vid))
      => /\ PersistedStatus(e.vid) = "FLAGGED"
         /\ PersistedError(e.vid) = e.msg

\* C7: no rejection of a run is left to the caller of startProcessing, and
\* the upload response is written while the run it started is still at its
\* first await, reporting the artifact as PENDING.
C7_FireAndForget ==
  /\ unhandled = {}
  /\ \A v \in VideoIds :
       upload[v].state = "responded"
         => /\ upload[v].reported = "PENDING"
            /\ upload[v].runPcAtResponse = "find"

\* C7 witness: a run started by an upload was rejected (its emitError threw)
\* after the response was sent.
C7_Witness ==
  \E v \in VideoIds :
    /\ upload[v].state = "responded"
    /\ run[upload[v].run].pc = "rejected"

\* C8: when every run started for an existing artifact has ended, the
\* artifact's persisted status is COMPLETED or FLAGGED.
C8_EndsTerminal ==
  \A v \in VideoIds :
    (Exists(v) /\ RunsOf(v) # {} /\ ActiveRunsOf(v) = {})
      => PersistedStatus(v) \in Terminal

\* C9: the percentages a run has emitted so far are non-decreasing and lie
\* in 0..100, on every path.
C9_ProgressMonotone ==
  \A r \in RunIds :
    /\ NonDecreasing(run[r].pcts)
    /\ \A i \in 1..Len(run[r].pcts) : run[r].pcts[i] \in 0..100

\* C9 witness: a run that has emitted all seven progress events, and a run
\* that failed after emitting some.
C9_Witness ==
  /\ \E r \in RunIds : Len(run[r].pcts) = 7 /\ run[r].pc = "done"
  /\ \E r \in RunIds : Len(run[r].pcts) \in 1..6 /\ run[r].pc = "done"

\* The parts of C10 that hold on every path: the analyzer is called only
\* after the extractor returned successfully, and no two stages of a run are
\* in progress together.
StagesInOrder(r) ==
  /\ run[r].scan # "none" => run[r].extract = "ok"
  /\ run[r].pc = "scan" => run[r].extract = "ok"
  /\ Cardinality(run[r].inflight) <= 1
  /\ run[r].pc = "extract" <=> run[r].inflight = {"extract"}
  /\ run[r].pc = "scan" <=> run[r].inflight = {"scan"}

\* A save of run r that has just been applied.
JustSaved(r, pcs) == run[r].pc \in pcs /\ run[r].res = "ok"

\* C10 as stated: stages in order, and whenever a run has persisted a
\* terminal status (by the finalize save or by the catch block's save) its
\* analyzer has returned.
C10_AsStated ==
  \A r \in RunIds :
    /\ StagesInOrder(r)
    /\ JustSaved(r, {"saveFinalRet", "hSaveRet"}) => run[r].scan = "ok"

\* C10 amended: stages in order, and the finalize stage persists its terminal
\* status only after the analyzer has returned; the catch block persists
\* FLAGGED as soon as a stage has thrown, whether or not the analyzer ran.
C10_StagesSequential ==
  \A r \in RunIds :
    /\ StagesInOrder(r)
    /\ run[r].pc \in {"saveFinal", "saveFinalRet"} => run[r].scan = "ok"

\* C10 witness: a run whose finalize save was applied, and a run whose catch
\* block persisted FLAGGED after the extractor failed.
C10_Witness ==
  /\ \E r \in RunIds : JustSaved(r, {"saveFinalRet"})
  /\ \E r \in RunIds : JustSaved(r, {"hSaveRet"}) /\ run[r].extract = "failed"

\* The messages a run's catch block holds after an extractor failure.
ExtractionFailures == { WrapExtractionError(m) : m \in ExtractorMessages }

\* C11: after the extractor failed in a run, that run never calls the
\* analyzer and has emitted no progress of 25% or more; and when the run ends
\* by broadcasting the extraction failure, it has emitted no 100%, and the
\* artifact (if it exists) is persisted as FLAGGED with that message as detail.
C11_ExtractorFailureIsFatal ==
  /\ \A r \in RunIds :
       run[r].extract = "failed"
         => /\ run[r].scan = "none"
            /\ run[r].pc \in {"hFind", "hSave", "hSaveRet"}
            /\ \A i \in 1..Len(run[r].pcts) : run[r].pcts[i] < PctMetadataExtracted
  /\ \A i \in 1..Len(emitted) :
       LET e == emitted[i] IN
       (e.kind = "error" /\ e.msg \in ExtractionFailures)
         => /\ \A j \in 1..Len(run[e.run].pcts) :
                 run[e.run].pcts[j] < PctMetadataExtracted
            /\ \A j \in 1..Len(emitted) : emitted[j].kind # "complete"
            /\ Exists(e.vid)
                 => /\ PersistedStatus(e.vid) = "FLAGGED"
                    /\ PersistedError(e.vid) = e.msg

\* The characters a and b are the same letter, whatever their case.
SameLetter(a, b) ==
  \/ a = b
  \/ \E i \in 1..Len(UpperChars) :
       {a, b} \subseteq {UpperChars[i], LowerChars[i]}

\* The display name contains the term at some position, case-insensitively.
ContainsTerm(name, term) ==
  \E i \in 0..(Len(name) - Len(term)) :
    \A j \in 1..Len(term) : SameLetter(name[i + j], term[j])

\* The disallowed terms a display name contains, by position in the list.
TermsIn(name) ==
  { k \in 1..Len(SENSITIVITY_KEYWORDS) :
      ContainsTerm(name, SENSITIVITY_KEYWORDS[k].chars) }

C13_RandomFallback ==
  (scan.phase = "saved" /\ TermsIn(scan.name) = {})
    => /\ scan.result.drew
       /\ IF scan.draw * 10 < DrawSteps
            THEN scan.rec.status = "FLAGGED" /\ scan.rec.error = ReasonRandom
            ELSE scan.rec.status = "COMPLETED" /\ scan.rec.error = NoError

\* C13 witness: a name without any term saved COMPLETED by the smallest draw
\* that is not below one tenth.
C13_Witness ==
  /\ scan.phase = "saved"
  /\ TermsIn(scan.name) = {}
  /\ scan.draw * 10 >= DrawSteps
  /\ (scan.draw - 1) * 10 < DrawSteps
  /\ scan.rec.status = "COMPLETED"

\* The completion and failure events of run r among the events evs.
TerminalEventsOf(evs, r) ==
  SelectSeq(evs, LAMBDA e : e.run = r /\ e.kind \in {"complete", "error"})

\* C14: the step in which a run ends broadcasts exactly one terminal event of
\* that run, a completion event if the run ends from its successful final
\* save and a failure event otherwise; no other step broadcasts a terminal
\* event of the run.
C14_OneTerminalEvent ==
  [][ \A r \in RunIds :
        LET last == TerminalEventsOf(emitted', r) IN
        IF Active(r) /\ Ended(r)'
          THEN /\ Len(last) = 1
               /\ last[1].kind = "complete"
                    <=> (run[r].pc = "saveFinalRet" /\ run[r].res = "ok")
          ELSE Len(last) = 0 ]_vars

\* C14 witness: one run has ended with all its progress sent, and another has
\* just ended by broadcasting its failure.
C14_Witness ==
  \E r1, r2 \in RunIds :
    /\ r1 # r2
    /\ run[r1].pc = "done" /\ Len(run[r1].pcts) = 7
    /\ run[r2].pc = "done"
    /\ TerminalEventsOf(emitted, r2) # <<>>
    /\ TerminalEventsOf(emitted, r2)[1].kind = "error"

\* C15: a failing emission changes nothing of what a run persists: no run is
\* sent to its catch block by an emit that threw, and no artifact carries the
\* emit failure as its status detail.
C15_EmissionNeverFailsRun ==
  /\ \A r \in RunIds : run[r].err # MsgEmitFailed
  /\ \A v \in VideoIds : PersistedError(v) # MsgEmitFailed

\* The observer connections that got past the handshake.
Established == { c \in Conns : sock.conns[c].state \in {"connected", "closed"} }

\* C16: a connection authenticated for tenant T has received only events
\* about artifacts of T, and is in no other tenant's room, after any sequence
\* of handshakes, join_room, leave_room, disconnect and emits.
C16_TenantIsolation ==
  \A c \in Established :
    LET conn == sock.conns[c] IN
    /\ \A ev \in conn.inbox : ev[2] = conn.tenantId
    /\ \A t \in SocketTenants : t # conn.tenantId => Room(t) \notin conn.rooms

\* C16 witness: two observers of different tenants, each of which received
\* events; the first also joined a further room its join_room accepted and
\* was refused another.
C16_Witness ==
  /\ sock.conns["c1"].state = "connected"
  /\ sock.conns["c2"].state = "connected"
  /\ sock.conns["c1"].tenantId # sock.conns["c2"].tenantId
  /\ Cardinality(sock.conns["c1"].inbox) = 3
  /\ sock.conns["c2"].inbox # {}
  /\ Room(sock.conns["c1"].tenantId) \o <<"0">> \in sock.conns["c1"].rooms
  /\ sock.conns["c2"].reply = "error"

\* The handshake's token is a valid credential of a stored, active user
\* whose tenant is stored and active.
Verified(token) ==
  /\ token.kind = "valid"
  /\ token.userId \in Users
  /\ sock.users[token.userId] = "active"
  /\ sock.tenants[UserTenant[token.userId]] = "active"

\* C17: a connection is in a room or has received an event only if its
\* credential was verified and its user and tenant are active, and then its
\* tenant is the user's; every other handshake is rejected, joins nothing
\* and receives nothing; and the tenant of a connection never changes.
C17_AuthenticatedOnce ==
  /\ [](\A c \in Conns :
          LET conn == sock.conns[c] IN
          conn # NoConn
            => /\ (conn.rooms # {} \/ conn.inbox # {} \/ conn.state # "rejected")
                    => /\ Verified(conn.token)
                       /\ conn.tenantId = UserTenant[conn.token.userId]
               /\ ~Verified(conn.token)
                    => /\ conn.state = "rejected"
                       /\ conn.rooms = {} /\ conn.inbox = {})
  /\ [][ \A c \in Conns :
           sock.conns[c] # NoConn
             => sock'.conns[c].tenantId = sock.conns[c].tenantId ]_vars

\* C17 witness: one observer in its tenant's room has received an event, and
\* the handshake of a user whose tenant is inactive was rejected.
C17_Witness ==
  /\ sock.conns["c1"].state = "connected"
  /\ sock.conns["c1"].inbox # {}
  /\ sock.conns["c2"].state = "rejected"
  /\ sock.conns["c2"].error = "Authentication error: Tenant is inactive"

\* The requests that have been answered.
Answered == { q \in ReqSlots : strm.reqs[q].pc = "responded" }

\* The video a request names, when it is a stored one.
Target(q) == strm.videos[strm.reqs[q].id]

\* C18: a request for a video of another tenant is answered exactly as a
\* request for an id no video has, whatever the video's status, visibility
\* and owner; and the bytes a response delivers are those of the requested
\* video, which belongs to the requester's tenant.
C18_NoCrossTenantStream ==
  \A q \in Answered :
    LET req == strm.reqs[q] IN
    /\ (req.id \in StoredIds /\ Target(q).tenantId # req.user.tenantId)
         => /\ req.found = "null"
            /\ req.response = NotFoundResponse
    /\ req.id \notin StoredIds => req.response = NotFoundResponse
    /\ req.response.bytes # NoBytes
         => /\ req.response.bytes.vid = req.id
            /\ strm.videos[req.response.bytes.vid].tenantId = req.user.tenantId

\* C18 witness: two requests for the same completed video answered side by
\* side: its tenant's user is streamed a range, the other tenant's user gets
\* the not-found response.
C18_Witness ==
  /\ Answered = ReqSlots
  /\ strm.reqs["q1"].id = "x1" /\ strm.reqs["q2"].id = "x1"
  /\ strm.reqs["q1"].user.tenantId = TenantA
  /\ strm.reqs["q1"].response.code = 206
  /\ strm.reqs["q2"].user.tenantId = TenantB
  /\ strm.reqs["q2"].endpoint = "stream"
  /\ strm.reqs["q2"].response = NotFoundResponse

\* The requests for a stored video of the requester's own tenant.
OwnTenant == { q \in Answered :
                 /\ strm.reqs[q].id \in StoredIds
                 /\ Target(q).tenantId = strm.reqs[q].user.tenantId }

\* C19: on both endpoints a VIEWER gets a video of its tenant exactly when the
\* video is public or its own, and otherwise the not-found response; an
\* ADMIN or EDITOR always gets the video of its tenant, never the not-found
\* response.
C19_ViewerPolicy ==
  \A q \in OwnTenant :
    LET req == strm.reqs[q] IN
    IF req.user.role = "VIEWER"
      THEN IF Target(q).isPublic \/ Target(q).uploadedBy = req.user.id
             THEN req.found = req.id /\ req.response # NotFoundResponse
             ELSE req.found = "null" /\ req.response = NotFoundResponse
      ELSE req.found = req.id /\ req.response # NotFoundResponse

\* C19 witness: a private video asked for by two VIEWERs of its tenant: the
\* owner is streamed it, the other one gets the not-found response.
C19_Witness ==
  /\ Answered = ReqSlots
  /\ strm.reqs["q1"].id = "x1" /\ strm.reqs["q2"].id = "x1"
  /\ ~strm.videos["x1"].isPublic
  /\ strm.reqs["q1"].user.id = "viewer1"
  /\ strm.reqs["q1"].response.code = 200
  /\ strm.reqs["q1"].response.bytes # NoBytes
  /\ strm.reqs["q2"].user.id = "viewer2"
  /\ strm.reqs["q2"].response = NotFoundResponse

\* The streaming requests that passed the tenant and role checks.
Admitted == { q \in Answered :
                strm.reqs[q].endpoint = "stream" /\ strm.reqs[q].found # "null" }

\* C20: a streaming request that passed the tenant and role checks is
\* answered 200 or 206 only for a COMPLETED video; for a FLAGGED one it gets
\* 403 with the video's status detail, for a PENDING or PROCESSING one 403
\* "still processing"; in both cases no bytes, with or without a range.
C20_StatusGate ==
  \A q \in Admitted :
    LET req == strm.reqs[q]
        vid == strm.videos[req.found] IN
    /\ req.response.code \in {200, 206} => vid.processingStatus = "COMPLETED"
    /\ req.response.bytes # NoBytes => vid.processingStatus = "COMPLETED"
    /\ vid.processingStatus = "FLAGGED"
         => /\ req.response.code = 403
            /\ req.response.processingStatus = "FLAGGED"
            /\ req.response.processingError = vid.processingError
    /\ vid.processingStatus \in {"PENDING", "PROCESSING"}
         => /\ req.response.code = 403
            /\ req.response.message = "Video is still processing"
            /\ req.response.processingStatus = vid.processingStatus

\* C20 witness: an ADMIN asks for a FLAGGED video of its tenant without a
\* range and with one, and is refused both times with the status detail.
C20_Witness ==
  /\ Admitted = ReqSlots
  /\ \A q \in ReqSlots :
       /\ strm.reqs[q].user.role = "ADMIN"
       /\ strm.reqs[q].response.code = 403
       /\ strm.reqs[q].response.processingError = ReasonRandom
  /\ strm.reqs["q1"].range = NoRange
  /\ strm.reqs["q2"].range # NoRange

\* The single request of SpecRequest.
One == strm.reqs["q1"]

\* The request is a streaming request that has been answered.
StreamAnswered == One.pc = "responded" /\ One.endpoint = "stream"

\* C21: a streaming request with its credential in the Authorization header
\* gets a response the same request with ?token= can get: same status,
\* message, status fields, head and bytes.
C21_SameOnBothPaths ==
  (StreamAnswered /\ One.via = "header")
    => \E fileExists \in BOOLEAN :
         LET out == StreamOutcome(One.user, One.id, One.range, fileExists) IN
         One.response = [out.head EXCEPT !.bytes = out.file]

\* The answered streaming request reached the file of a COMPLETED video it
\* may access, and the file exists.
FileReached ==
  /\ StreamAnswered
  /\ One.found # "null"
  /\ strm.videos[One.found].processingStatus = "COMPLETED"
  /\ One.response.message # "Video file not found"

\* C22: with no Range header the response is 200, declares the total size
\* as Content-Length, the video's content type and Accept-Ranges: bytes, and
\* its body is the whole file.
C22_FullContent ==
  (FileReached /\ One.range = NoRange)
    => /\ One.response.code = 200
       /\ One.response.headers.contentLength = FileSize
       /\ One.response.headers.contentType = strm.videos[One.id].mimeType
       /\ One.response.headers.acceptRanges = "bytes"
       /\ One.response.bytes =
            [vid |-> One.id, start |-> 0, end |-> FileSize - 1]

\* C22 witness: an EDITOR was sent the whole file of its tenant's video.
C22_Witness ==
  /\ FileReached
  /\ One.range = NoRange
  /\ One.user.role = "EDITOR"
  /\ One.response.code = 200
  /\ One.response.bytes # NoBytes

\* bytes=<s>- : the end is omitted.
OpenRangeText(s) == BytesUnit \o Digit(s) \o Dash

\* The response is 206 for the bytes s..e inclusive.
PartialContent(s, e) ==
  /\ One.response.code = 206
  /\ One.response.headers.contentRange = <<s, e, FileSize>>
  /\ One.response.headers.contentLength = e - s + 1
  /\ One.response.headers.acceptRanges = "bytes"
  /\ One.response.bytes = [vid |-> One.id, start |-> s, end |-> e]

\* C23: for bytes=s-e with 0 <= s <= e < N the response is 206 with
\* Content-Range bytes s-e/N, Content-Length e-s+1 and exactly the bytes
\* s..e; an omitted e is N-1.
C23_PartialContent ==
  FileReached =>
    \A s \in 0..(FileSize - 1) :
      /\ \A e \in s..(FileSize - 1) :
           One.range = RangeText(s, e) => PartialContent(s, e)
      /\ One.range = OpenRangeText(s) => PartialContent(s, FileSize - 1)

\* C23 witness: the last byte alone was served.
C23_Witness ==
  /\ FileReached
  /\ One.range = RangeText(FileSize - 1, FileSize - 1)
  /\ One.response.code = 206
  /\ One.response.bytes =
       [vid |-> One.id, start |-> FileSize - 1, end |-> FileSize - 1]

\* C24: a range whose start or end is at or beyond the total size is
\* answered 416 with no byte of the file.
C24_Unsatisfiable ==
  FileReached =>
    \A s \in 0..9 :
      /\ \A e \in 0..9 :
           (One.range = RangeText(s, e) /\ (s >= FileSize \/ e >= FileSize))
             => One.response.code = 416 /\ One.response.bytes = NoBytes
      /\ (One.range = OpenRangeText(s) /\ s >= FileSize)
           => One.response.code = 416 /\ One.response.bytes = NoBytes

\* C24 witness: a range ending at the total size was refused.
C24_Witness ==
  /\ FileReached
  /\ One.range = RangeText(0, FileSize)
  /\ One.response.code = 416

\* C25: a range with start > end, both below the total size, is answered
\* 416.
C25_ReversedIs416 ==
  FileReached =>
    \A s \in 0..(FileSize - 1), e \in 0..(FileSize - 1) :
      (One.range = RangeText(s, e) /\ s > e) => One.response.code = 416

\* Range headers that are not bytes=<digits>-[<digits>].
Malformed ==
  { BytesUnit \o Dash \o Digit(1),
    BytesUnit \o <<"a", "b", "c">> \o Dash,
    BytesUnit \o Digit(0) \o Dash \o <<"a">>,
    ItemsUnit \o Digit(0) \o Dash \o Digit(1),
    BytesUnit \o Digit(1) }

\* C26: a malformed Range header is answered 416.
C26_MalformedIs416 ==
  (FileReached /\ One.range \in Malformed) => One.response.code = 416

\* C27: a response with an error status carries no byte of a file, and the
\* step that delivers bytes leaves status and head as they were written.
C27_HeadBeforeBytes ==
  /\ [](\A q \in ReqSlots :
          (strm.reqs[q] # NoRequest /\ strm.reqs[q].response.bytes # NoBytes)
            => strm.reqs[q].response.code \in {200, 206})
  /\ [][ \A q \in ReqSlots :
           ( /\ strm.reqs[q] # NoRequest
             /\ strm'.reqs[q] # NoRequest
             /\ strm'.reqs[q].response.bytes # strm.reqs[q].response.bytes )
             => /\ strm.reqs[q].pc = "piping"
                /\ strm.reqs[q].response.code \in {200, 206}
                /\ strm'.reqs[q].response.code = strm.reqs[q].response.code
                /\ strm'.reqs[q].response.headers
                     = strm.reqs[q].response.headers ]_vars

\* C27 witness: a range was delivered under the 206 head written before it.
C27_Witness ==
  /\ StreamAnswered
  /\ One.response.code = 206
  /\ One.response.headers # NoHeaders
  /\ One.response.bytes # NoBytes

\* The answered stream-info request of a requester who may see the video.
InfoAnswered ==
  /\ One.pc = "responded"
  /\ One.endpoint = "info"
  /\ One.via = "header"
  /\ One.id \in StoredIds
  /\ Matches(One.user, One.id, One.id)

\* C28: the stream-info response carries the video's persisted status, its
\* metadata and the streaming URL, and no filePath, for every status.
C28_InfoWithoutLocator ==
  InfoAnswered =>
    /\ One.response.code = 200
    /\ One.response.data.video.processingStatus
         = strm.videos[One.id].processingStatus
    /\ One.response.data.video.metadata = strm.videos[One.id].metadata
    /\ One.response.data.streamUrl = StreamUrl(One.id)
    /\ "filePath" \notin DOMAIN One.response.data.video

\* C28 witness: the info of a FLAGGED video was returned.
C28_Witness ==
  /\ InfoAnswered
  /\ strm.videos[One.id].processingStatus = "FLAGGED"
  /\ One.response.code = 200
  /\ One.response.data.video.processingStatus = "FLAGGED"

\* C29: no step of the streaming and stream-info endpoints changes a field
\* of a video or anything of a pipeline run.
C29_ReadOnly ==
  [][strm'.videos = strm.videos /\ pipeline' = pipeline]_vars

\* C29 witness: a request was refused for the video's status, and the video
\* is as it was stored.
C29_Witness ==
  /\ StreamAnswered
  /\ One.response.code = 403
  /\ strm.videos[One.id].processingStatus = "PROCESSING"
  /\ strm.videos[One.id].views = 0

\* C30: while a video's persisted status is PENDING or PROCESSING, no
\* get-by-id request and no status update writes to its record (the view
\* counter and the status stay as they are).
C30_UntouchedUntilTerminal ==
  [][ \A x \in StoredIds :
        strm.videos[x].processingStatus \in {"PENDING", "PROCESSING"}
          => strm'.videos[x] = strm.videos[x] ]_vars

\* C32: a status update is accepted only from an ADMIN, for a video of its
\* tenant, and with COMPLETED or FLAGGED as the new status.
C32_OnlyTerminalAccepted ==
  \A q \in ReqSlots :
    LET req == strm.reqs[q] IN
    (req.pc = "responded" /\ req.endpoint = "status" /\ req.response.code = 200)
      => /\ req.user.role = "ADMIN"
         /\ strm.videos[req.id].tenantId = req.user.tenantId
         /\ req.body.processingStatus \in {"COMPLETED", "FLAGGED"}

\* C34: a video whose persisted status is COMPLETED has no processingError.
C34_CompletedHasNoDetail ==
  \A x \in StoredIds :
    strm.videos[x].processingStatus = "COMPLETED"
      => strm.videos[x].processingError = NoError

\* C37: every get-by-id request answered with the video adds one to the view
\* counter the record had just before, so that n answers add n.
C37_EveryViewCounted ==
  [][ \A q \in ReqSlots :
        ( /\ strm.reqs[q].pc = "save"
          /\ strm.reqs[q].endpoint = "byId"
          /\ strm'.reqs[q].pc = "responded" )
          => strm'.videos[strm.reqs[q].found].views
               = strm.videos[strm.reqs[q].found].views + 1 ]_vars

\* C38: the stream-info response reports the size of the stored file, the
\* size the streaming endpoint declares.
C38_InfoReportsFileSize ==
  (InfoAnswered /\ One.response.code = 200)
    => One.response.data.video.fileSize = FileSize

\* C39: no response that returns a video carries its filePath.
C39_NoLocatorInResponses ==
  \A q \in ReqSlots :
    (strm.reqs[q].pc = "responded" /\ strm.reqs[q].response.data # NoData)
      => "filePath" \notin DOMAIN strm.reqs[q].response.data.video

\* C33: the bytes of a file reach the client only while the persisted
\* status of its video is COMPLETED.
C33_BytesOnlyWhileCompleted ==
  [][ \A q \in ReqSlots :
        ( /\ strm.reqs[q].pc = "piping"
          /\ strm'.reqs[q].pc = "responded"
          /\ strm'.reqs[q].response.bytes # NoBytes )
          => strm.videos[strm.reqs[q].found].processingStatus = "COMPLETED"
      ]_vars

\* C31: an uploaded video keeps the tenant it was created with for as long
\* as its record exists, and no step changes the tenantId of a stored video:
\* not a step of a run, a view being counted, a status update or a streaming
\* request.
C31_TenantNeverChanges ==
  /\ [](\A v \in VideoIds : Exists(v) => store[v].tenant = upload[v].tenant)
  /\ [][ /\ \A v \in VideoIds :
              (Exists(v) /\ Exists(v)') => store'[v].tenant = store[v].tenant
         /\ \A x \in StoredIds :
              strm'.videos[x].tenantId = strm.videos[x].tenantId ]_vars

\* C31 witness: the second tenant's upload has been processed to its terminal
\* save, and the stored video has had a view counted and its status changed.
C31_Witness ==
  /\ Exists("v1")
  /\ store["v1"].tenant = "t2"
  /\ store["v1"].status = "COMPLETED"
  /\ strm.videos["x1"].views > 0
  /\ strm.videos["x1"].processingStatus = "FLAGGED"
  /\ strm.videos["x1"].tenantId = TenantA

\* C35: every event is sent to the room of the tenant its video was created
\* with, which is the tenant on the record and the tenant its run was given.
C35_EventsToOwnTenant ==
  /\ \A i \in 1..Len(emitted) :
       /\ emitted[i].room = upload[emitted[i].vid].tenant
       /\ Exists(emitted[i].vid) => emitted[i].room = store[emitted[i].vid].tenant
  /\ \A r \in RunIds :
       run[r].pc # "idle" => run[r].tenant = upload[run[r].vid].tenant

\* C35 witness: the completion of the second tenant's video has just been
\* sent to that tenant's room.
C35_Witness ==
  /\ Exists("v1")
  /\ store["v1"].tenant = "t2"
  /\ \E i \in 1..Len(emitted) :
       emitted[i].kind = "complete" /\ emitted[i].room = "t2"

\* No step but the upload's create makes a record.
NeverCreates ==
  \A v \in VideoIds : (~Exists(v) /\ Exists(v)') => upload[v] = NoUpload

\* Run r ends in this step.
Ends(r) == Active(r) /\ Ended(r)'

\* C36 as stated: a run never creates a record, and a run that ends with its
\* record gone ends with exactly one failure event and no completion event.
C36_AsStated ==
  [][ /\ NeverCreates
      /\ \A r \in RunIds :
           (Ends(r) /\ ~Exists(run[r].vid)')
             => LET last == TerminalEventsOf(emitted', r) IN
                Len(last) = 1 /\ last[1].kind = "error" ]_vars

\* C36, amended: a run never creates a record; a find or save of the run that
\* reaches the database with the record gone fails, and the run then ends
\* with exactly one failure event and no completion event; a run whose
\* terminal save was written before the deletion ends with its completion
\* event.
C36_NoResurrection ==
  [][ /\ NeverCreates
      /\ \A r \in RunIds :
           LET v == run[r].vid IN
           /\ (run[r].pc = "find" /\ run'[r].pc # "find" /\ ~Exists(v))
                => run'[r].pc = "hFind"
           /\ ( /\ run[r].pc \in {"saveProc", "saveFinal", "hSave"}
                /\ run'[r].pc # run[r].pc
                /\ ~Exists(v) )
                => run'[r].res # "ok" /\ ~Exists(v)'
           /\ (Ends(r) /\ ~Exists(v)')
                => LET last == TerminalEventsOf(emitted', r) IN
                   /\ Len(last) = 1
                   /\ last[1].kind = "complete"
                        <=> (run[r].pc = "saveFinalRet" /\ run[r].res = "ok")
      ]_vars

\* C36 witness: the video was deleted after its run had saved PROCESSING; the
\* run has ended by announcing the failure of a save, and no record exists.
C36_Witness ==
  \E r \in RunIds :
    /\ run[r].pc = "done"
    /\ ~Exists(run[r].vid)
    /\ "PROCESSING" \in seen[run[r].vid]
    /\ TerminalEventsOf(emitted, r) # <<>>
    /\ TerminalEventsOf(emitted, r)[1].kind = "error"
    /\ TerminalEventsOf(emitted, r)[1].msg = MsgDocNotFound

====
